---- MODULE Spec2Model ----
(***************************************************************************)
(* Routing and escalation engine of the multi-model "second opinion" MCP   *)
(* server: router.ts (escalate, getProvider, detectMultimodal,             *)
(* routeRequest), config.ts (loadConfig), the startup and the tool         *)
(* handlers of the delegated-router index.ts (one request, and two         *)
(* requests interleaved at their awaits), and the heuristic index.ts       *)
(* (selectProviderAndModel and its tool handler).                          *)
(*                                                                         *)
(* Texts (model names, prompts, reasons, error messages) are TLA+ strings. *)
(* A confidence is an integer number of hundredths (0.65 is 65).           *)
(***************************************************************************)
EXTENDS Integers, Sequences, FiniteSets, TLC

VARIABLES
    fn,          \* SpecFn: the exported function a behaviour applies
    escInput,    \* SpecFn: the model escalate is first applied to
    escModel,    \* SpecFn: the result of the applications made so far
    escCount,    \* SpecFn: how many times escalate has been applied
    selArgs,     \* SpecFn: arguments of selectProviderAndModel
    selRet,      \* SpecFn: its return value
    lcArgs,      \* SpecFn: the environment and the config file loadConfig reads
    lcRet,       \* SpecFn: <<>>, or <<c>> once loadConfig has returned c
    rrPc,        \* routeRequest: "none", "await" (queryOpenAI pending), "returned"
    rrArgs,      \* routeRequest: its arguments prompt, context, hasOpenAI, hasGemini
    rrOut,       \* routeRequest: what the awaited router call produced
    rrResolved,  \* routeRequest: selected_model after the availability remap
    rrDecision,  \* routeRequest: the decision it returned
    inflight,    \* the provider calls sent and not yet settled
    routerCalls, \* how many router calls the current request has made
    server,      \* which index.ts the process runs: "router" or "heuristic"
    process,     \* "starting" (main running), "serving", "exited"
    parked,      \* the locals of the requests suspended at an await
    config,      \* index.ts: the module constant config = loadConfig()
    pc,          \* tool handler: "idle", "routing", "calling", "retrying", "done"
                 \* ("querying" for the one call of the heuristic handler)
    request,     \* tool handler: the request being handled
    decision,    \* tool handler: its local decision (reason is appended to)
    model,       \* tool handler: its local model
    firstError,  \* tool handler: the error caught from the first invocation
    calls,       \* the callModel invocations of the current request, in order
    result       \* tool handler: the result returned to the client

fnVars == <<fn, escInput, escModel, escCount, selArgs, selRet, lcArgs, lcRet>>
rrVars == <<rrPc, rrArgs, rrOut, rrResolved, rrDecision>>
serverVars == <<server, process, parked, config>>
handlerVars == <<server, process, parked, config, pc, request, decision, model,
                 firstError, calls, result>>

vars == <<fn, escInput, escModel, escCount, selArgs, selRet, lcArgs, lcRet,
          rrPc, rrArgs, rrOut, rrResolved, rrDecision, inflight, routerCalls,
          server, process, parked,
          config, pc, request, decision, model, firstError, calls, result>>

-----------------------------------------------------------------------------
(* String operations of the JavaScript runtime that the code uses.          *)

\* String.prototype.startsWith
StartsWith(t, s) == Len(t) >= Len(s) /\ SubSeq(t, 1, Len(s)) = s

\* String.prototype.includes, for a non-empty s
Includes(t, s) ==
    \E i \in 1..(Len(t) - Len(s) + 1) : SubSeq(t, i, i + Len(s) - 1) = s

\* String.prototype.toLowerCase over the letters A-Z
UPPER == "ABCDEFGHIJKLMNOPQRSTUVWXYZ"
LOWER == "abcdefghijklmnopqrstuvwxyz"

LowerChar(c) ==
    IF \E k \in 1..Len(UPPER) : SubSeq(UPPER, k, k) = c
    THEN LET k == CHOOSE k \in 1..Len(UPPER) : SubSeq(UPPER, k, k) = c
         IN SubSeq(LOWER, k, k)
    ELSE c

RECURSIVE LowerFrom(_, _)
LowerFrom(t, i) ==
    IF i > Len(t) THEN "" ELSE LowerChar(SubSeq(t, i, i)) \o LowerFrom(t, i + 1)

ToLowerCase(t) == LowerFrom(t, 1)

\* The characters the regular expression class \s matches in these texts
IsWhitespace(c) == c \in {" ", "\n", "\t"}

\* t.split(/\s+/).length: one more than the number of maximal whitespace runs
SplitWhitespaceLength(t) ==
    1 + Cardinality({i \in 1..Len(t) :
                        /\ IsWhitespace(SubSeq(t, i, i))
                        /\ (i = 1 \/ ~IsWhitespace(SubSeq(t, i - 1, i - 1)))})

\* (t.match(/s/g) || []).length for a literal s: matches do not overlap
RECURSIVE MatchCountFrom(_, _, _)
MatchCountFrom(t, s, i) ==
    IF i + Len(s) - 1 > Len(t) THEN 0
    ELSE IF SubSeq(t, i, i + Len(s) - 1) = s
         THEN 1 + MatchCountFrom(t, s, i + Len(s))
         ELSE MatchCountFrom(t, s, i + 1)

MatchCount(t, s) == MatchCountFrom(t, s, 1)

\* Template rendering of a confidence held in hundredths: 40 is "0.4",
\* 64 is "0.64", 100 is "1".
ConfText(c) ==
    LET f == c % 100
        frac == IF f % 10 = 0 THEN ToString(f \div 10)
                ELSE (IF f < 10 THEN "0" ELSE "") \o ToString(f)
    IN IF f = 0 THEN ToString(c \div 100)
       ELSE ToString(c \div 100) \o "." \o frac

-----------------------------------------------------------------------------
(* router.ts: the catalog, the escalation policy and the provider of a     *)
(* model.                                                                  *)

VALID_MODELS ==
    {"gemini-3-flash-preview", "gemini-3-pro-preview",
     "gpt-5-nano", "gpt-5-mini", "gpt-5.2"}

\* Model names a router may return that are not in the catalog.
OtherModels == {"gpt-4o", "gemini-ultra"}

\* A faulty variant of escalate: the mid tier is its own successor.
escalate_stuck(m) ==
    IF m = "gpt-5-nano" THEN "gpt-5-mini"
    ELSE IF m = "gpt-5-mini" THEN "gpt-5-mini"
    ELSE IF m = "gemini-3-flash-preview" THEN "gemini-3-pro-preview"
    ELSE "gpt-5.2"

escalate(m) ==
    IF m = "gpt-5-nano" THEN "gpt-5-mini"
    ELSE IF m = "gpt-5-mini" THEN "gpt-5.2"
    ELSE IF m = "gemini-3-flash-preview" THEN "gemini-3-pro-preview"
    ELSE "gpt-5.2"

getProvider(m) ==
    IF StartsWith(m, "gemini") THEN "gemini" ELSE "openai"

\* confidence < 0.65 is the escalation test of routeRequest
ConfThreshold == 65

\* A thrown value: an Error with its message, or a value that is no Error.
Error(msg) == [isError |-> TRUE, message |-> msg]
NonError == [isError |-> FALSE, message |-> ""]

\* error instanceof Error ? error.message : dflt
ErrorText(error, dflt) == IF error.isError THEN error.message ELSE dflt

\* What a provider call may throw.
ProviderErrors == {Error("timeout"), Error("quota exceeded"), NonError}

\* Keyword vocabulary of detectMultimodal
MultimodalSignals ==
    {"image", "picture", "photo", "screenshot", "diagram",
     "pdf", "document", "attachment",
     "audio", "sound", "recording", "voice",
     "video", "clip", "footage",
     "base64", "data:image", "data:audio"}

\* A faulty variant of detectMultimodal: the text is not lower-cased.
detectMultimodal_CaseSensitive(prompt, context) ==
    \E k \in MultimodalSignals : Includes(prompt \o " " \o context, k)

\* An absent context is the empty string: the code reads it only through
\* (context || ""), (context || null) and (context ? .. : ..).
detectMultimodal(prompt, context) ==
    LET fullText == ToLowerCase(prompt \o " " \o context)
    IN \E s \in MultimodalSignals : Includes(fullText, s)

multimodalHint(multimodal) ==
    IF multimodal
    THEN "\nNOTE: The request appears to involve multimodal content (images/PDF/audio/video)."
    ELSE ""

availableHint(hasOpenAI, hasGemini) ==
    IF ~hasGemini
    THEN "\nCONSTRAINT: Only OpenAI models are available (gpt-5-nano, gpt-5-mini, gpt-5.2)."
    ELSE IF ~hasOpenAI
    THEN "\nCONSTRAINT: Only Gemini models are available (gemini-3-flash-preview, gemini-3-pro-preview)."
    ELSE ""

\* The one provider call routeRequest makes: queryOpenAI on gpt-5-nano with
\* the router system prompt.  The JSON text of routerInput is kept as its
\* three fields.
RouterQuery(args) ==
    LET multimodal == detectMultimodal(args.prompt, args.context)
    IN [api |-> "openai", apiKey |-> args.apiKey, model |-> "gpt-5-nano",
        system |-> "ROUTER_SYSTEM_PROMPT",
        userRequest |-> args.prompt, additionalContext |-> args.context,
        multimodalDetected |-> multimodal,
        hints |-> multimodalHint(multimodal)
                  \o availableHint(args.hasOpenAI, args.hasGemini)]

\* Signals of a decision.
Signals(multimodal, stakes, ambiguity, context_size, strict_output, task_type) ==
    [multimodal |-> multimodal, stakes |-> stakes, ambiguity |-> ambiguity,
     context_size |-> context_size, strict_output |-> strict_output,
     task_type |-> task_type]

NoDecision ==
    [selected_model |-> "", confidence |-> 0,
     signals |-> Signals(FALSE, "", "", "", FALSE, ""),
     fallback_model |-> "", reason |-> ""]

\* A faulty variant of ValidateModel: the substituted confidence is 0.7.
ValidateModel_Confident(d) ==
    IF d.selected_model \notin VALID_MODELS
    THEN [d EXCEPT !.selected_model = "gpt-5-mini", !.confidence = 70]
    ELSE d

\* Validate the selected model (the safe default is the mid tier at 0.5)
ValidateModel(d) ==
    IF d.selected_model \notin VALID_MODELS
    THEN [d EXCEPT !.selected_model = "gpt-5-mini", !.confidence = 50]
    ELSE d

\* A faulty variant of EnforceAvailability: the remap away from OpenAI is missing.
EnforceAvailability_GeminiOnly(d, hasOpenAI, hasGemini) ==
    IF getProvider(d.selected_model) = "gemini" /\ ~hasGemini
    THEN [d EXCEPT
            !.selected_model =
                IF @ = "gemini-3-pro-preview" THEN "gpt-5.2" ELSE "gpt-5-mini",
            !.reason = @ \o " (remapped: Gemini not available)"]
    ELSE d

\* A faulty variant of EnforceAvailability: the remap away from Gemini is missing.
EnforceAvailability_OpenAIOnly(d, hasOpenAI, hasGemini) ==
    IF getProvider(d.selected_model) = "openai" /\ ~hasOpenAI
    THEN [d EXCEPT
            !.selected_model =
                IF @ = "gpt-5.2" THEN "gemini-3-pro-preview"
                ELSE "gemini-3-flash-preview",
            !.reason = @ \o " (remapped: OpenAI not available)"]
    ELSE d

\* A faulty variant of EnforceAvailability: the remaps leave the reason as it was.
EnforceAvailability_Silent(d, hasOpenAI, hasGemini) ==
    LET provider == getProvider(d.selected_model)
    IN IF provider = "gemini" /\ ~hasGemini
       THEN [d EXCEPT !.selected_model =
                IF @ = "gemini-3-pro-preview" THEN "gpt-5.2" ELSE "gpt-5-mini"]
       ELSE IF provider = "openai" /\ ~hasOpenAI
       THEN [d EXCEPT !.selected_model =
                IF @ = "gpt-5.2" THEN "gemini-3-pro-preview"
                ELSE "gemini-3-flash-preview"]
       ELSE d

\* Enforce provider availability: provider is read once, before either remap
EnforceAvailability(d, hasOpenAI, hasGemini) ==
    LET provider == getProvider(d.selected_model)
        d1 == IF provider = "gemini" /\ ~hasGemini
              THEN [d EXCEPT
                      !.selected_model =
                          IF @ = "gemini-3-pro-preview" THEN "gpt-5.2" ELSE "gpt-5-mini",
                      !.reason = @ \o " (remapped: Gemini not available)"]
              ELSE d
    IN IF provider = "openai" /\ ~hasOpenAI
       THEN [d1 EXCEPT
               !.selected_model =
                   IF @ = "gpt-5.2" THEN "gemini-3-pro-preview"
                   ELSE "gemini-3-flash-preview",
               !.reason = @ \o " (remapped: OpenAI not available)"]
       ELSE d1

\* A faulty variant of ConfidenceEscalation: the test is confidence <= 0.6.
ConfidenceEscalation_Loose(d) ==
    IF d.confidence <= 60
    THEN [d EXCEPT
            !.selected_model = escalate(@),
            !.reason = @ \o " (escalated: confidence " \o ConfText(d.confidence) \o ")"]
    ELSE d

\* Confidence-based escalation
ConfidenceEscalation(d) ==
    IF d.confidence < ConfThreshold
    THEN [d EXCEPT
            !.selected_model = escalate(@),
            !.reason = @ \o " (escalated: confidence " \o ConfText(d.confidence) \o ")"]
    ELSE d

\* A faulty variant of UpdateFallback: the fallback the router proposed is kept.
UpdateFallback_Kept(d) == d

\* Update fallback
UpdateFallback(d) == [d EXCEPT !.fallback_model = escalate(d.selected_model)]

\* A faulty variant of RouterFallback: Gemini availability is not consulted.
RouterFallback_AnyGemini(multimodal, hasGemini, error) ==
    LET chosen == IF multimodal THEN "gemini-3-flash-preview" ELSE "gpt-5-mini"
    IN [selected_model |-> chosen,
        confidence |-> 50,
        signals |-> Signals(multimodal, "medium", "medium", "medium", FALSE, "other"),
        fallback_model |-> escalate(chosen),
        reason |-> "Router failed, using fallback: " \o ErrorText(error, "unknown error")]

\* The catch block of routeRequest: the router failed, simple heuristic
RouterFallback(multimodal, hasGemini, error) ==
    LET chosen == IF multimodal /\ hasGemini THEN "gemini-3-flash-preview"
                 ELSE "gpt-5-mini"
    IN [selected_model |-> chosen,
        confidence |-> 50,
        signals |-> Signals(multimodal, "medium", "medium", "medium", FALSE, "other"),
        fallback_model |-> escalate(chosen),
        reason |-> "Router failed, using fallback: " \o ErrorText(error, "unknown error")]

\* What the awaited router call produced: text that parses to a decision
\* object ("json"), text that JSON.parse rejects ("unparseable", with the
\* error JSON.parse throws), or a raised provider error ("failed").
RouterModels == VALID_MODELS \cup OtherModels
\* The confidences a router decision carries (numbers, in hundredths).
RouterConfidences == {40, 64, 65, 90}
\* The fallback_model and the multimodal signal a router decision carries.
RouterExtras == {<<"gpt-5-nano", FALSE>>, <<"gpt-5.2", TRUE>>}
RouterReason == "one short sentence"

RouterDecisions ==
    {[selected_model |-> m, confidence |-> c,
      signals |-> Signals(x[2], "low", "low", "short", FALSE, "code"),
      fallback_model |-> x[1], reason |-> RouterReason] :
        m \in RouterModels, c \in RouterConfidences, x \in RouterExtras}

RouterOutcomes ==
    {[kind |-> "json", decision |-> d, error |-> NonError] : d \in RouterDecisions}
    \cup {[kind |-> "unparseable", decision |-> NoDecision,
           error |-> Error("Unexpected token")]}
    \cup {[kind |-> "failed", decision |-> NoDecision, error |-> e] :
            e \in ProviderErrors}

\* routeRequest from the point where the awaited router call has settled:
\* the selected model after the availability remap (resolved; empty on the
\* catch path) and the decision returned.
routeRequest(args, out) ==
    IF out.kind = "json"
    THEN LET resolved == EnforceAvailability(ValidateModel(out.decision),
                                             args.hasOpenAI, args.hasGemini)
         IN [resolved |-> resolved.selected_model,
             decision |-> UpdateFallback(ConfidenceEscalation(resolved))]
    ELSE [resolved |-> "",
          decision |-> RouterFallback(detectMultimodal(args.prompt, args.context),
                                      args.hasGemini, out.error)]

-----------------------------------------------------------------------------
(* Heuristic index.ts: the local heuristic classification.                  *)

\* The code fence of three backquotes.  A TLA+ string cannot hold a
\* backquote, so the texts of this module write the fence as three tildes.
Fence == "~~~"

complexKeywords ==
    {"architect", "design", "refactor", "debug", "security", "performance",
     "optimize", "tradeoff", "trade-off", "compare", "review", "analyze",
     "complex", "system", "infrastructure", "migration", "strategy"}

codeSignals ==
    {"code", "function", "class", "bug", "error", "stack trace", "syntax",
     "compile", "runtime", "api", "endpoint", "database", "query", "sql",
     "regex", "algorithm", "data structure", "typescript", "javascript",
     "python", "rust", "go ", "java", Fence}

reasoningSignals ==
    {"explain", "why", "how does", "what if", "compare", "pros and cons",
     "tradeoff", "trade-off", "should i", "best practice", "approach",
     "architecture", "design pattern", "strategy", "plan"}

\* context ? prompt + " " + context : prompt
FullText(prompt, context) ==
    IF context # "" THEN prompt \o " " \o context ELSE prompt

\* A faulty variant of analyzeComplexity: the simple bound is wordCount < 5.
analyzeComplexity_FiveWords(prompt, context) ==
    LET fullText == IF context # "" THEN prompt \o " " \o context ELSE prompt
        wordCount == SplitWhitespaceLength(fullText)
        fences == MatchCount(fullText, Fence)
        hasMultipleQuestions == MatchCount(fullText, "?") > 1
        lower == ToLowerCase(fullText)
        complexHits == Cardinality({kw \in complexKeywords : Includes(lower, kw)})
    IN IF wordCount < 5 /\ fences = 0 /\ complexHits = 0 /\ ~hasMultipleQuestions
       THEN "simple"
       ELSE IF wordCount < 200 /\ fences <= 2 /\ complexHits <= 1
       THEN "moderate"
       ELSE "complex"

\* fences is the number of fence matches: codeBlockCount is fences / 2, so
\* codeBlockCount === 0 is fences = 0 and codeBlockCount <= 1 is fences <= 2.
analyzeComplexity(prompt, context) ==
    LET fullText == FullText(prompt, context)
        wordCount == SplitWhitespaceLength(fullText)
        fences == MatchCount(fullText, Fence)
        hasMultipleQuestions == MatchCount(fullText, "?") > 1
        lower == ToLowerCase(fullText)
        complexHits == Cardinality({kw \in complexKeywords : Includes(lower, kw)})
    IN IF wordCount < 50 /\ fences = 0 /\ complexHits = 0 /\ ~hasMultipleQuestions
       THEN "simple"
       ELSE IF wordCount < 200 /\ fences <= 2 /\ complexHits <= 1
       THEN "moderate"
       ELSE "complex"

detectQueryType(prompt, context) ==
    LET lower == ToLowerCase(FullText(prompt, context))
        codeHits == Cardinality({x \in codeSignals : Includes(lower, x)})
        reasoningHits == Cardinality({x \in reasoningSignals : Includes(lower, x)})
    IN IF codeHits > reasoningHits /\ codeHits >= 2 THEN "code"
       ELSE IF reasoningHits > codeHits /\ reasoningHits >= 2 THEN "reasoning"
       ELSE "general"

Selection(provider, m, reason) ==
    [provider |-> provider, model |-> m, reason |-> reason]

NoSelection == Selection("", "", "")

OpenAITier(complexity) ==
    IF complexity = "simple" THEN "gpt-5-nano"
    ELSE IF complexity = "moderate" THEN "gpt-5-mini"
    ELSE "gpt-5.2"

GeminiTier(complexity) ==
    IF complexity = "complex" THEN "gemini-3-pro-preview"
    ELSE "gemini-3-flash-preview"

selectProviderAndModel(args) ==
    LET complexity == analyzeComplexity(args.prompt, args.context)
        queryType == detectQueryType(args.prompt, args.context)
    IN IF args.hasOpenAI /\ ~args.hasGemini
       THEN Selection("openai", OpenAITier(complexity),
                      complexity \o " query, OpenAI only")
       ELSE IF args.hasGemini /\ ~args.hasOpenAI
       THEN Selection("gemini", GeminiTier(complexity),
                      complexity \o " query, Gemini only")
       ELSE IF queryType = "code"
       THEN Selection("openai", OpenAITier(complexity),
                      complexity \o " code query -> OpenAI")
       ELSE IF queryType = "reasoning"
       THEN Selection("gemini", GeminiTier(complexity),
                      complexity \o " reasoning query -> Gemini")
       ELSE IF complexity = "simple"
       THEN Selection("openai", "gpt-5-nano", "simple general query -> nano")
       ELSE IF complexity = "moderate"
       THEN Selection("gemini", "gemini-3-flash-preview",
                      "moderate general query -> Gemini Flash")
       ELSE Selection("openai", "gpt-5.2", "complex general query -> GPT 5.2")

-----------------------------------------------------------------------------
(* Requests.                                                                *)

Prompts ==
    {"fix this bug", "Read the Screenshot", "debug the parser",
     "review the security design"}

Contexts == {"", "see report.PDF"}

Args(apiKey, prompt, context, hasOpenAI, hasGemini) ==
    [apiKey |-> apiKey, prompt |-> prompt, context |-> context,
     hasOpenAI |-> hasOpenAI, hasGemini |-> hasGemini]

NoArgs == Args("", "", "", FALSE, FALSE)

\* Ten-word classification prompts; the second one asks for a justification.
ClassificationPrompts ==
    {"tag this short message as spam or not spam please",
     "classify this short message as spam and explain why please"}

CallArgs ==
    {Args("sk-test", p, c, o, g) :
        p \in Prompts \cup ClassificationPrompts, c \in Contexts,
        o \in BOOLEAN, g \in BOOLEAN}

NoOutcome == [kind |-> "", decision |-> NoDecision, error |-> NonError]

-----------------------------------------------------------------------------
(* routeRequest as two steps around its one await.                          *)

\* routeRequest(args) up to the await of queryOpenAI
RouteRequestBegin(args) ==
    /\ rrPc' = "await"
    /\ rrArgs' = args
    /\ rrOut' = NoOutcome
    /\ rrResolved' = ""
    /\ rrDecision' = NoDecision
    /\ inflight' = {RouterQuery(args)}
    /\ routerCalls' = routerCalls + 1

\* the router call settles with out and routeRequest returns
RouteRequestEnd(out) ==
    LET r == routeRequest(rrArgs, out)
    IN /\ rrPc' = "returned"
       /\ rrOut' = out
       /\ rrResolved' = r.resolved
       /\ rrDecision' = r.decision
       /\ UNCHANGED <<rrArgs, routerCalls>>

-----------------------------------------------------------------------------
(* config.ts and the provider wrappers.                                     *)

\* The environment: a variable that is unset or empty is "".
Envs ==
    {[OPENAI_API_KEY |-> o, GEMINI_API_KEY |-> g] :
        o \in {"", "sk-env"}, g \in {"", "g-env"}}

\* The config file: unreadable, or its openai and gemini API keys ("" when
\* the section is missing).
ConfigFiles ==
    {[readable |-> FALSE, openai |-> "", gemini |-> ""]}
    \cup {[readable |-> TRUE, openai |-> o, gemini |-> g] :
            o \in {"", "sk-file"}, g \in {"", "g-file"}}

\* config.openai and config.gemini as their apiKey ("" when not configured):
\* the file contributes its openai section only, the environment overrides.
loadConfig(env, file) ==
    [openai |-> IF env.OPENAI_API_KEY # "" THEN env.OPENAI_API_KEY
                ELSE IF file.readable THEN file.openai ELSE "",
     gemini |-> env.GEMINI_API_KEY]

Configs == {loadConfig(env, file) : env \in Envs, file \in ConfigFiles}

\* What loadConfig reads: process.env and the config file.
LoadArgs == {[env |-> env, file |-> file] : env \in Envs, file \in ConfigFiles}
NoLoad ==
    [env |-> [OPENAI_API_KEY |-> "", GEMINI_API_KEY |-> ""],
     file |-> [readable |-> FALSE, openai |-> "", gemini |-> ""]]

\* What a provider API may answer: the text of the first choice, or none.
ProviderContents == {"use a mutex", ""}

\* response.choices[0]?.message?.content || "No response generated"
queryOpenAI(content) == IF content = "" THEN "No response generated" ELSE content

\* result.response.text()
queryGemini(content) == content

-----------------------------------------------------------------------------
(* Harness of the exported functions (SpecFn): a behaviour draws one        *)
(* function and its arguments and applies it.                               *)

\* How many times the harness applies escalate in a row.
MaxApply == 3

NoConfig == [openai |-> "", gemini |-> ""]
NoRequest == [name |-> "", hasPrompt |-> FALSE, prompt |-> "", context |-> ""]
NoResult == [isError |-> FALSE, content |-> <<>>]

HandlerIdle ==
    /\ pc = "idle"
    /\ request = NoRequest
    /\ decision = NoDecision
    /\ model = ""
    /\ firstError = NonError
    /\ calls = <<>>
    /\ result = NoResult

FnInit ==
    /\ fn \in {"escalate", "routeRequest", "selectProviderAndModel", "loadConfig"}
    /\ escInput \in (IF fn = "escalate" THEN VALID_MODELS \cup OtherModels ELSE {""})
    /\ escModel = escInput
    /\ escCount = 0
    /\ selArgs \in (IF fn = "selectProviderAndModel" THEN CallArgs ELSE {NoArgs})
    /\ selRet = NoSelection
    /\ lcArgs \in (IF fn = "loadConfig" THEN LoadArgs ELSE {NoLoad})
    /\ lcRet = <<>>
    /\ rrPc = "none"
    /\ rrArgs \in (IF fn = "routeRequest" THEN CallArgs ELSE {NoArgs})
    /\ rrOut = NoOutcome
    /\ rrResolved = ""
    /\ rrDecision = NoDecision
    /\ inflight = {}
    /\ routerCalls = 0
    /\ server = "" /\ process = "" /\ parked = <<>>
    /\ config = NoConfig
    /\ HandlerIdle

EscalateApply ==
    /\ fn = "escalate"
    /\ escCount < MaxApply
    /\ escModel' = escalate(escModel)
    /\ escCount' = escCount + 1
    /\ UNCHANGED <<fn, escInput, selArgs, selRet, lcArgs, lcRet, rrVars, inflight,
                   routerCalls, handlerVars>>

SelectProviderAndModelCall ==
    /\ fn = "selectProviderAndModel"
    /\ selRet = NoSelection
    /\ selRet' = selectProviderAndModel(selArgs)
    /\ UNCHANGED <<fn, escInput, escModel, escCount, selArgs, lcArgs, lcRet, rrVars,
                   inflight, routerCalls, handlerVars>>

RouteRequestCall ==
    /\ fn = "routeRequest"
    /\ rrPc = "none"
    /\ RouteRequestBegin(rrArgs)
    /\ UNCHANGED <<fnVars, handlerVars>>

RouteRequestReturn ==
    /\ fn = "routeRequest"
    /\ rrPc = "await"
    /\ \E out \in RouterOutcomes : RouteRequestEnd(out)
    /\ inflight' = {}
    /\ UNCHANGED <<fnVars, handlerVars>>

LoadConfigCall ==
    /\ fn = "loadConfig"
    /\ lcRet = <<>>
    /\ lcRet' = <<loadConfig(lcArgs.env, lcArgs.file)>>
    /\ UNCHANGED <<fn, escInput, escModel, escCount, selArgs, selRet, lcArgs, rrVars,
                   inflight, routerCalls, handlerVars>>

FnNext ==
    \/ EscalateApply
    \/ SelectProviderAndModelCall
    \/ LoadConfigCall
    \/ RouteRequestCall
    \/ RouteRequestReturn

SpecFn == FnInit /\ [][FnNext]_vars

-----------------------------------------------------------------------------
(* index.ts: the tool handler of the delegated-router server.               *)

ToolNames == {"get_second_opinion", "list_available_models", "delete_everything"}

\* A call-tool request: its name and the arguments prompt (may be missing)
\* and context.
Requests ==
    {[name |-> "get_second_opinion", hasPrompt |-> TRUE, prompt |-> p, context |-> c] :
        p \in Prompts, c \in Contexts}
    \cup {[name |-> "get_second_opinion", hasPrompt |-> FALSE, prompt |-> "",
           context |-> c] : c \in Contexts}
    \cup {[name |-> n, hasPrompt |-> FALSE, prompt |-> "", context |-> ""] :
            n \in ToolNames \ {"get_second_opinion"}}

\* A faulty variant of ErrorResult: the payload is not flagged as an error.
ErrorResult_Unflagged(error) ==
    [isError |-> FALSE, content |-> <<"Error: " \o error.message>>]

\* The outer catch of the handler; everything the handler throws is an Error.
ErrorResult(error) ==
    [isError |-> TRUE, content |-> <<"Error: " \o error.message>>]

\* context ? prompt + "\n\nAdditional context:\n" + context : prompt
FullPrompt(prompt, context) ==
    IF context # "" THEN prompt \o "\n\nAdditional context:\n" \o context ELSE prompt

\* callModel: whether the key of the model's provider is configured
KeyConfigured(m, cfg) ==
    IF getProvider(m) = "openai" THEN cfg.openai # "" ELSE cfg.gemini # ""

\* callModel: the error it throws when the key is not configured
KeyError(m) ==
    IF getProvider(m) = "openai" THEN Error("OpenAI API key not configured.")
    ELSE Error("Gemini API key not configured.")

\* callModel: the provider call it makes
ProviderQuery(m, cfg, req) ==
    [api |-> getProvider(m),
     apiKey |-> IF getProvider(m) = "openai" THEN cfg.openai ELSE cfg.gemini,
     model |-> m, system |-> "ADVISOR_SYSTEM_PROMPT",
     prompt |-> FullPrompt(req.prompt, req.context)]

\* A callModel invocation in the log of the request.
Invocation(m, state, text, error) ==
    [model |-> m, state |-> state, text |-> text, error |-> error]

\* Step 5: the routing metadata block
RoutingText(m, d) ==
    "--- Routing ---"
    \o "\nProvider: " \o getProvider(m)
    \o "\nModel:    " \o m
    \o "\nTask:     " \o d.signals.task_type
    \o "\nStakes:   " \o d.signals.stakes
    \o "\nAmbiguity:" \o d.signals.ambiguity
    \o "\nConfidence:" \o ConfText(d.confidence)
    \o "\nReason:   " \o d.reason
    \o "\n--- Response ---"

SuccessResult(m, d, response) ==
    [isError |-> FALSE, content |-> <<RoutingText(m, d), response>>]

\* A faulty variant of BothFailed: the message of the original failure is dropped.
BothFailed_RetryOnly(m, escalated, error, retryError) ==
    Error("Both " \o m \o " and " \o escalated \o " failed. "
          \o "Retry: " \o ErrorText(retryError, "error"))

BothFailed(m, escalated, error, retryError) ==
    Error("Both " \o m \o " and " \o escalated \o " failed. "
          \o "Original: " \o ErrorText(error, "error") \o ". "
          \o "Retry: " \o ErrorText(retryError, "error"))

\* A faulty variant of ListResult: an empty providers object is returned as it is.
ListResult_Unchecked(cfg) ==
    [isError |-> FALSE,
     content |-> <<"providers:"
                   \o (IF cfg.openai # "" THEN " openai" ELSE "")
                   \o (IF cfg.gemini # "" THEN " gemini" ELSE "")>>]

\* list_available_models: the JSON text is kept as the configured providers
ListResult(cfg) ==
    IF cfg.openai = "" /\ cfg.gemini = ""
    THEN [isError |-> TRUE,
          content |-> <<"No providers configured. Set OPENAI_API_KEY and/or GEMINI_API_KEY.">>]
    ELSE [isError |-> FALSE,
          content |-> <<"providers:"
                        \o (IF cfg.openai # "" THEN " openai" ELSE "")
                        \o (IF cfg.gemini # "" THEN " gemini" ELSE "")>>]

\* The handler returns res to the client.
Return(res) ==
    /\ pc' = "done"
    /\ result' = res
    /\ inflight' = {}

\* A faulty variant of Retry: the first failure is returned as the error of the request.
Retry_Fatal(m, d, error, log) ==
    /\ firstError' = error
    /\ calls' = log
    /\ Return(ErrorResult(Error(ErrorText(error, "error"))))

\* The retry, Step 4: escalate the model that failed with error and call it.
Retry(m, d, error, log) ==
    LET escalated == escalate(m)
    IN /\ firstError' = error
       /\ IF KeyConfigured(escalated, config)
          THEN /\ pc' = "retrying"
               /\ inflight' = {ProviderQuery(escalated, config, request)}
               /\ calls' = Append(log, Invocation(escalated, "pending", "", NonError))
               /\ UNCHANGED result
          ELSE /\ calls' = Append(log, Invocation(escalated, "threw", "",
                                                   KeyError(escalated)))
               /\ Return(ErrorResult(BothFailed(m, escalated, error,
                                                KeyError(escalated))))

\* Step 3: call the selected model of decision d.  The handler awaits the
\* provider call, or callModel throws at once and the catch block runs.
Invoke(d) ==
    LET m == d.selected_model
    IN /\ decision' = d
       /\ model' = m
       /\ IF KeyConfigured(m, config)
          THEN /\ pc' = "calling"
               /\ inflight' = {ProviderQuery(m, config, request)}
               /\ calls' = <<Invocation(m, "pending", "", NonError)>>
               /\ UNCHANGED <<firstError, result>>
          ELSE Retry(m, d, KeyError(m), <<Invocation(m, "threw", "", KeyError(m))>>)

InitOf(servers) ==
    /\ fn = "" /\ escInput = "" /\ escModel = "" /\ escCount = 0
    /\ selArgs = NoArgs /\ selRet = NoSelection
    /\ lcArgs = NoLoad /\ lcRet = <<>>
    /\ rrPc = "none" /\ rrArgs = NoArgs /\ rrOut = NoOutcome
    /\ rrResolved = "" /\ rrDecision = NoDecision
    /\ inflight = {}
    /\ routerCalls = 0
    /\ server \in servers
    /\ process = "starting"
    /\ parked = <<>>
    /\ config \in Configs
    /\ HandlerIdle

\* The delegated-router server after config = loadConfig(), before main().
Init == InitOf({"router"})

\* A faulty variant of Rejection: the arguments are not validated.
Rejection_ParseSkipped(req, cfg) ==
    IF cfg.openai = "" /\ cfg.gemini = ""
    THEN Error("No API keys configured. Set OPENAI_API_KEY and/or GEMINI_API_KEY.")
    ELSE IF cfg.openai = ""
    THEN Error("OpenAI API key required for the router (gpt-5-nano). Set OPENAI_API_KEY.")
    ELSE NonError

\* A faulty variant of Rejection: no key is checked.
Rejection_KeysUnchecked(req, cfg) ==
    IF ~req.hasPrompt THEN Error("prompt: Required") ELSE NonError

\* A faulty variant of Rejection: the key of the router is not checked.
Rejection_RouterKeyUnchecked(req, cfg) ==
    IF ~req.hasPrompt
    THEN Error("prompt: Required")
    ELSE IF cfg.openai = "" /\ cfg.gemini = ""
    THEN Error("No API keys configured. Set OPENAI_API_KEY and/or GEMINI_API_KEY.")
    ELSE NonError

\* get_second_opinion before Step 1: what the handler throws before it
\* routes (the ZodError of SecondOpinionSchema.parse, then the two key
\* checks, in this order), or NonError when it goes on to routeRequest.
Rejection(req, cfg) ==
    IF ~req.hasPrompt
    THEN Error("prompt: Required")
    ELSE IF cfg.openai = "" /\ cfg.gemini = ""
    THEN Error("No API keys configured. Set OPENAI_API_KEY and/or GEMINI_API_KEY.")
    ELSE IF cfg.openai = ""
    THEN Error("OpenAI API key required for the router (gpt-5-nano). Set OPENAI_API_KEY.")
    ELSE NonError

\* main() of either index.ts: server.connect resolves and the process serves.
MainConnects ==
    /\ process = "starting"
    /\ process' = "serving"
    /\ UNCHANGED <<fnVars, rrVars, inflight, routerCalls, server, parked, config, pc,
                   request, decision, model, firstError, calls, result>>

\* main() rejects (server.connect failed): process.exit(1).
MainFails ==
    /\ process = "starting"
    /\ process' = "exited"
    /\ UNCHANGED <<fnVars, rrVars, inflight, routerCalls, server, parked, config, pc,
                   request, decision, model, firstError, calls, result>>

\* The tools the ListTools handler returns (the same two in both servers).
ToolsResult ==
    [isError |-> FALSE, content |-> <<"tools: get_second_opinion list_available_models">>]

\* A list-tools request arrives: the handler returns the tools.
ListTools ==
    /\ process = "serving"
    /\ pc = "idle"
    /\ request' = [name |-> "tools/list", hasPrompt |-> FALSE, prompt |-> "",
                   context |-> ""]
    /\ decision' = NoDecision /\ model' = "" /\ firstError' = NonError
    /\ calls' = <<>>
    /\ Return(ToolsResult)
    /\ UNCHANGED <<fnVars, rrVars, routerCalls, serverVars>>

\* A call-tool request arrives and the handler runs to its first await or to
\* its return.
CallTool ==
    /\ server = "router"
    /\ process = "serving"
    /\ pc = "idle"
    /\ \E req \in Requests :
         /\ request' = req
         /\ decision' = NoDecision /\ model' = "" /\ firstError' = NonError
         /\ calls' = <<>>
         /\ LET fail(error) ==
                    /\ Return(ErrorResult(error))
                    /\ UNCHANGED <<rrVars, routerCalls>>
            IN IF req.name = "list_available_models"
               THEN /\ Return(ListResult(config))
                    /\ UNCHANGED <<rrVars, routerCalls>>
               ELSE IF req.name # "get_second_opinion"
               THEN fail(Error("Unknown tool: " \o req.name))
               ELSE IF Rejection(req, config) # NonError
               THEN fail(Rejection(req, config))
               ELSE /\ RouteRequestBegin(Args(config.openai, req.prompt, req.context,
                                               config.openai # "", config.gemini # ""))
                    /\ pc' = "routing"
                    /\ UNCHANGED result
    /\ UNCHANGED <<fnVars, serverVars>>

\* The router call settles: routeRequest returns its decision and the
\* handler goes on to the first invocation.
RouterSettles ==
    /\ pc = "routing"
    /\ \E out \in RouterOutcomes :
         /\ RouteRequestEnd(out)
         /\ Invoke(routeRequest(rrArgs, out).decision)
    /\ UNCHANGED <<fnVars, serverVars, request>>

\* What the provider of model m answers with content
ProviderText(m, content) ==
    IF getProvider(m) = "openai" THEN queryOpenAI(content) ELSE queryGemini(content)

\* The first invocation returns text: the handler returns it with the
\* routing metadata.
FirstCallReturns ==
    /\ pc = "calling"
    /\ \E content \in ProviderContents :
         LET response == ProviderText(model, content)
         IN /\ calls' = <<Invocation(model, "returned", response, NonError)>>
            /\ Return(SuccessResult(model, decision, response))
    /\ UNCHANGED <<fnVars, rrVars, routerCalls, serverVars, request, decision, model,
                   firstError>>

\* The first invocation throws: the handler escalates and retries.
FirstCallThrows ==
    /\ pc = "calling"
    /\ \E error \in ProviderErrors :
         Retry(model, decision, error, <<Invocation(model, "threw", "", error)>>)
    /\ UNCHANGED <<fnVars, rrVars, routerCalls, serverVars, request, decision, model>>

\* A faulty variant of RetriedModel: the assignment model = escalated is missing.
RetriedModel_Unassigned(m, escalated) == m

\* model = escalated, after the retry returned
RetriedModel(m, escalated) == escalated

\* The retry returns text: the handler reports the escalated model and
\* appends the escalation to the reason.
RetryReturns ==
    /\ pc = "retrying"
    /\ \E content \in ProviderContents :
         LET escalated == escalate(model)
             response == ProviderText(escalated, content)
             d == [decision EXCEPT
                     !.reason = @ \o " (escalated from " \o decision.selected_model
                                  \o ": " \o ErrorText(firstError, "error") \o ")"]
         IN /\ calls' = <<calls[1], Invocation(escalated, "returned", response, NonError)>>
            /\ model' = RetriedModel(model, escalated)
            /\ decision' = d
            /\ Return(SuccessResult(model', d, response))
    /\ UNCHANGED <<fnVars, rrVars, routerCalls, serverVars, request, firstError>>

\* A faulty variant of RetryThrows: a failed retry is retried once more.
RetryThrows_Again ==
    /\ pc = "retrying"
    /\ \E retryError \in ProviderErrors :
         LET escalated == escalate(model)
             threw == Invocation(escalated, "threw", "", retryError)
         IN IF Len(calls) = 2
            THEN /\ calls' = <<calls[1], threw,
                               Invocation(escalated, "pending", "", NonError)>>
                 /\ UNCHANGED <<pc, result, inflight>>
            ELSE /\ calls' = <<calls[1], calls[2], threw>>
                 /\ Return(ErrorResult(BothFailed(model, escalated, firstError,
                                                  retryError)))
    /\ UNCHANGED <<fnVars, rrVars, routerCalls, serverVars, request, decision, model,
                   firstError>>

\* The retry throws as well: the handler returns one error naming both.
RetryThrows ==
    /\ pc = "retrying"
    /\ \E retryError \in ProviderErrors :
         LET escalated == escalate(model)
         IN /\ calls' = <<calls[1], Invocation(escalated, "threw", "", retryError)>>
            /\ Return(ErrorResult(BothFailed(model, escalated, firstError, retryError)))
    /\ UNCHANGED <<fnVars, rrVars, routerCalls, serverVars, request, decision, model,
                   firstError>>

\* The result has been sent: the state of the request is discarded.
Respond ==
    /\ pc = "done"
    /\ pc' = "idle"
    /\ request' = NoRequest
    /\ decision' = NoDecision /\ model' = "" /\ firstError' = NonError
    /\ calls' = <<>>
    /\ result' = NoResult
    /\ rrPc' = "none" /\ rrArgs' = NoArgs /\ rrOut' = NoOutcome
    /\ rrResolved' = "" /\ rrDecision' = NoDecision
    /\ routerCalls' = 0
    /\ UNCHANGED <<fnVars, serverVars, inflight>>

Next ==
    \/ MainConnects
    \/ MainFails
    \/ ListTools
    \/ CallTool
    \/ RouterSettles
    \/ FirstCallReturns
    \/ FirstCallThrows
    \/ RetryReturns
    \/ RetryThrows
    \/ Respond

Spec == Init /\ [][Next]_vars

\* The handler leaves the await it is suspended at.
Settles(at) ==
    /\ pc = at
    /\ pc' \in {"calling", "retrying", "done"} \ {at}

\* Every provider call eventually returns text or raises: the handler does
\* not stay forever at the await of the router call, of the first
\* invocation or of the retry.
SpecLive ==
    /\ Spec
    /\ WF_pc(Settles("routing"))
    /\ WF_pc(Settles("calling"))
    /\ WF_pc(Settles("retrying"))

-----------------------------------------------------------------------------
(* index.ts of the heuristic server: its tool handler selects the model     *)
(* locally and makes one provider call, without a retry.                    *)

\* get_second_opinion before the selection: the ZodError of
\* SecondOpinionSchema.parse, then the key check.
HeurRejection(req, cfg) ==
    IF ~req.hasPrompt
    THEN Error("prompt: Required")
    ELSE IF cfg.openai = "" /\ cfg.gemini = ""
    THEN Error("No API keys configured. Set OPENAI_API_KEY and/or GEMINI_API_KEY.")
    ELSE NonError

\* selection = selectProviderAndModel(prompt, context, hasOpenAI, hasGemini)
HeurSelection(req, cfg) ==
    selectProviderAndModel(Args("", req.prompt, req.context,
                                cfg.openai # "", cfg.gemini # ""))

\* The provider call of the heuristic handler
HeurQuery(selection, cfg, req) ==
    [api |-> selection.provider,
     apiKey |-> IF selection.provider = "openai" THEN cfg.openai ELSE cfg.gemini,
     model |-> selection.model, system |-> "ADVISOR_SYSTEM_PROMPT",
     prompt |-> FullPrompt(req.prompt, req.context)]

HeurSuccessResult(selection, response) ==
    [isError |-> FALSE,
     content |-> <<"[Provider: " \o selection.provider \o " | Model: "
                   \o selection.model \o " | Reason: " \o selection.reason
                   \o "]\n\n" \o response>>]

\* The outer catch of the heuristic handler: a provider error reaches it as
\* thrown; String(error) of a thrown value that is no Error is kept as the
\* text of a plain object.
HeurErrorResult(error) ==
    ErrorResult(Error(ErrorText(error, "[object Object]")))

\* A call-tool request arrives at the heuristic server.
HeurCallTool ==
    /\ server = "heuristic"
    /\ process = "serving"
    /\ pc = "idle"
    /\ \E req \in Requests :
         /\ request' = req
         /\ decision' = NoDecision /\ firstError' = NonError
         /\ LET fail(error) ==
                    /\ Return(ErrorResult(error))
                    /\ model' = "" /\ calls' = <<>>
                selection == HeurSelection(req, config)
            IN IF req.name = "list_available_models"
               THEN /\ Return(ListResult(config))
                    /\ model' = "" /\ calls' = <<>>
               ELSE IF req.name # "get_second_opinion"
               THEN fail(Error("Unknown tool: " \o req.name))
               ELSE IF HeurRejection(req, config) # NonError
               THEN fail(HeurRejection(req, config))
               ELSE /\ model' = selection.model
                    /\ calls' = <<Invocation(selection.model, "pending", "", NonError)>>
                    /\ inflight' = {HeurQuery(selection, config, req)}
                    /\ pc' = "querying"
                    /\ UNCHANGED result
    /\ UNCHANGED <<fnVars, rrVars, routerCalls, serverVars>>

\* The provider call returns text: the handler returns it with the selection.
HeurCallReturns ==
    /\ pc = "querying"
    /\ \E content \in ProviderContents :
         LET selection == HeurSelection(request, config)
             response == IF selection.provider = "openai" THEN queryOpenAI(content)
                         ELSE queryGemini(content)
         IN /\ calls' = <<Invocation(model, "returned", response, NonError)>>
            /\ Return(HeurSuccessResult(selection, response))
    /\ UNCHANGED <<fnVars, rrVars, routerCalls, serverVars, request, decision, model,
                   firstError>>

\* The provider call throws: the outer catch returns the error, no retry.
HeurCallThrows ==
    /\ pc = "querying"
    /\ \E error \in ProviderErrors :
         /\ calls' = <<Invocation(model, "threw", "", error)>>
         /\ Return(HeurErrorResult(error))
    /\ UNCHANGED <<fnVars, rrVars, routerCalls, serverVars, request, decision, model,
                   firstError>>

\* Either server: a process runs one of the two index.ts.
InitServers == InitOf({"router", "heuristic"})

ServersNext ==
    \/ Next
    \/ HeurCallTool
    \/ HeurCallReturns
    \/ HeurCallThrows

SpecServers == InitServers /\ [][ServersNext]_vars

-----------------------------------------------------------------------------
(* Properties of the exported functions, checked under SpecFn.              *)

RouteRequestReturned == fn = "routeRequest" /\ rrPc = "returned"

OneProvider(args) == args.hasOpenAI # args.hasGemini
OnlyProvider(args) == IF args.hasOpenAI THEN "openai" ELSE "gemini"
Available(provider, args) ==
    IF provider = "openai" THEN args.hasOpenAI ELSE args.hasGemini

\* C1: with exactly one provider available, the provider of the final
\* selected model is that provider, for routeRequest and for
\* selectProviderAndModel, whatever the router produced.
C1_SingleProviderRespected ==
    /\ (RouteRequestReturned /\ OneProvider(rrArgs))
         => getProvider(rrDecision.selected_model) = OnlyProvider(rrArgs)
    /\ (fn = "selectProviderAndModel" /\ selRet # NoSelection /\ OneProvider(selArgs))
         => /\ selRet.provider = OnlyProvider(selArgs)
            /\ getProvider(selRet.model) = OnlyProvider(selArgs)

\* C2: whenever at least one provider is available, the model selected after
\* the availability remap is in the catalog and its provider is available.
C2_ResolvedInCatalogAndAvailable ==
    (RouteRequestReturned /\ rrOut.kind = "json"
        /\ (rrArgs.hasOpenAI \/ rrArgs.hasGemini))
      => /\ rrResolved \in VALID_MODELS
         /\ Available(getProvider(rrResolved), rrArgs)

C2_Witness ==
    /\ RouteRequestReturned /\ rrOut.kind = "json"
    /\ rrOut.decision.selected_model = "gpt-4o"
    /\ ~rrArgs.hasOpenAI /\ rrArgs.hasGemini
    /\ rrResolved = "gemini-3-flash-preview"

LowConfidenceCatalogChoice ==
    /\ RouteRequestReturned /\ rrOut.kind = "json"
    /\ rrOut.decision.selected_model \in VALID_MODELS
    /\ rrOut.decision.confidence < ConfThreshold

\* C3 as stated: with confidence below 0.65 the final selected model differs
\* from the choice after availability resolution and is its escalation.
C3_EscalatedAndDifferent ==
    LowConfidenceCatalogChoice
      => /\ rrDecision.selected_model # rrResolved
         /\ rrDecision.selected_model = escalate(rrResolved)

\* C3 amended: with confidence below 0.65 the final selected model is the
\* escalation of the choice after availability resolution, and differs from
\* it unless that choice is gpt-5.2, the ceiling.
C3_EscalatedAndDifferentBelowCeiling ==
    LowConfidenceCatalogChoice
      => /\ rrDecision.selected_model = escalate(rrResolved)
         /\ (rrResolved # "gpt-5.2" => rrDecision.selected_model # rrResolved)

C3_Witness ==
    /\ LowConfidenceCatalogChoice
    /\ rrOut.decision.confidence = 64
    /\ rrResolved = "gemini-3-flash-preview"
    /\ rrDecision.selected_model = "gemini-3-pro-preview"

\* The chains of the README: nano -> mini -> 5.2 and flash -> pro; the top of
\* either chain goes to gpt-5.2.
ChainSuccessor ==
    [m \in VALID_MODELS |->
        CASE m = "gpt-5-nano" -> "gpt-5-mini"
          [] m = "gpt-5-mini" -> "gpt-5.2"
          [] m = "gemini-3-flash-preview" -> "gemini-3-pro-preview"
          [] OTHER -> "gpt-5.2"]

\* C4: escalate maps the catalog into the catalog along the two chains, and
\* from any catalog model two applications reach gpt-5.2, where every further
\* application stays.
C4_EscalateChains ==
    (fn = "escalate" /\ escInput \in VALID_MODELS)
      => /\ escModel \in VALID_MODELS
         /\ (escCount = 1 => escModel = ChainSuccessor[escInput])
         /\ (escCount >= 2 => escModel = "gpt-5.2")

C4_Witness ==
    /\ fn = "escalate"
    /\ escInput = "gemini-3-flash-preview"
    /\ escCount = MaxApply
    /\ escModel = "gpt-5.2"

RouterOutputRejected ==
    /\ RouteRequestReturned
    /\ \/ rrOut.kind = "unparseable"
       \/ rrOut.kind = "json" /\ rrOut.decision.selected_model \notin VALID_MODELS

\* C9: when the router output does not parse or names a model outside the
\* catalog, the decision carries confidence 0.5 and a reason recording that
\* an unknown model was downgraded.
C9_UnknownModelRecorded ==
    RouterOutputRejected
      => /\ rrDecision.confidence = 50
         /\ Includes(ToLowerCase(rrDecision.reason), "unknown model")

\* C10: routeRequest returns a decision for every router outcome; when the
\* router call fails the decision is the heuristic one (gemini-3-flash-preview
\* if multimodal content was detected and Gemini is available, gpt-5-mini
\* otherwise) and its reason records the failure and the error message.
C10_RouterFailureFallsBack ==
    RouteRequestReturned
      => /\ rrDecision.selected_model \in VALID_MODELS
         /\ rrOut.kind = "failed"
              => /\ rrDecision.selected_model =
                        IF detectMultimodal(rrArgs.prompt, rrArgs.context)
                           /\ rrArgs.hasGemini
                        THEN "gemini-3-flash-preview" ELSE "gpt-5-mini"
                 /\ StartsWith(rrDecision.reason, "Router failed")
                 /\ rrOut.error.isError
                      => Includes(rrDecision.reason, rrOut.error.message)

C10_Witness ==
    /\ RouteRequestReturned /\ rrOut.kind = "failed"
    /\ rrOut.error = Error("timeout")
    /\ rrArgs.prompt = "Read the Screenshot" /\ ~rrArgs.hasGemini
    /\ rrDecision.selected_model = "gpt-5-mini"
    /\ rrDecision.reason = "Router failed, using fallback: timeout"

-----------------------------------------------------------------------------
(* Properties of the tool handler, checked under Spec.                      *)

FirstThrew == Len(calls) >= 1 /\ calls[1].state = "threw"
RetrySucceeded ==
    pc = "done" /\ Len(calls) = 2 /\ FirstThrew /\ calls[2].state = "returned"
BothThrew ==
    pc = "done" /\ Len(calls) = 2 /\ FirstThrew /\ calls[2].state = "threw"

\* The Provider and Model lines of the routing metadata name m
ReportsModel(m) ==
    /\ ~result.isError
    /\ Len(result.content) = 2
    /\ Includes(result.content[1],
                "\nProvider: " \o getProvider(m) \o "\nModel:    " \o m \o "\nTask:")

\* C5 as stated: after a failed first invocation and a successful retry the
\* model reported is escalate(selected model) and not the selected model,
\* and the response text is the text the retry returned.
C5_ReportsEscalatedNotOriginal ==
    RetrySucceeded
      => /\ ReportsModel(escalate(rrDecision.selected_model))
         /\ ~ReportsModel(rrDecision.selected_model)
         /\ result.content[2] = calls[2].text

\* C5 amended: the model reported is escalate(selected model), which is not
\* the selected model unless that is gpt-5.2, and the response text is the
\* text the retry returned.
C5_ReportsEscalated ==
    RetrySucceeded
      => /\ ReportsModel(escalate(rrDecision.selected_model))
         /\ calls[2].model = escalate(rrDecision.selected_model)
         /\ (rrDecision.selected_model # "gpt-5.2"
               => ~ReportsModel(rrDecision.selected_model))
         /\ result.content[2] = calls[2].text

C5_Witness ==
    /\ RetrySucceeded
    /\ rrDecision.selected_model = "gemini-3-flash-preview"
    /\ calls[1].error = Error("timeout")
    /\ ReportsModel("gemini-3-pro-preview")
    /\ result.content[2] = "use a mutex"

\* C6: when both invocations throw, the caller gets one error result whose
\* message names both models and carries both error messages, and no
\* response text.
C6_BothFailuresReported ==
    BothThrew
      => /\ result.isError
         /\ Len(result.content) = 1
         /\ StartsWith(result.content[1], "Error: Both ")
         /\ Includes(result.content[1], calls[1].model)
         /\ Includes(result.content[1], calls[2].model)
         /\ calls[2].model = escalate(calls[1].model)
         /\ calls[1].error.isError
              => Includes(result.content[1], "Original: " \o calls[1].error.message)
         /\ calls[2].error.isError
              => Includes(result.content[1], "Retry: " \o calls[2].error.message)
         /\ \A content \in ProviderContents :
              /\ ~Includes(result.content[1], queryOpenAI(content))
              /\ content # "" => ~Includes(result.content[1], queryGemini(content))

C6_Witness ==
    /\ BothThrew
    /\ calls[1].model = "gpt-5-nano" /\ calls[2].model = "gpt-5-mini"
    /\ calls[1].error = Error("timeout")
    /\ calls[2].error = Error("quota exceeded")
    /\ result.content =
         <<"Error: Both gpt-5-nano and gpt-5-mini failed. Original: timeout. Retry: quota exceeded">>

\* C7: a request makes at most one router call and at most two invocations,
\* one provider call at a time; the second invocation exists only after the
\* first threw, every first failure is followed by the retry, and an error
\* result after an invocation means both invocations threw.
C7_OneRouterCallTwoInvocationsInSequence ==
    /\ routerCalls <= 1
    /\ Len(calls) <= 2
    /\ Cardinality(inflight) <= 1
    /\ calls # <<>> => routerCalls = 1 /\ rrPc = "returned"
    /\ Len(calls) = 2 => calls[1].state = "threw"
    /\ FirstThrew => Len(calls) = 2
    /\ (pc = "done" /\ result.isError /\ calls # <<>>)
         => Len(calls) = 2 /\ calls[2].state = "threw"
    /\ \A i \in 1..Len(calls) :
         calls[i].state = "pending" <=> (i = Len(calls) /\ pc \in {"calling", "retrying"})

C7_Witness ==
    /\ pc = "retrying"
    /\ routerCalls = 1
    /\ Len(calls) = 2
    /\ calls[1].state = "threw" /\ calls[2].state = "pending"
    /\ Cardinality(inflight) = 1

-----------------------------------------------------------------------------
(* The availability remap of routeRequest, checked under SpecFn.            *)

\* The model the remap step receives: the router's choice after validation.
ValidatedModel == ValidateModel(rrOut.decision).selected_model

\* routeRequest returned a parsed decision whose validated model belongs to
\* a provider that is not available: the remap step acted.
Remapped ==
    /\ RouteRequestReturned
    /\ rrOut.kind = "json"
    /\ ~Available(getProvider(ValidatedModel), rrArgs)

OtherProvider(provider) == IF provider = "openai" THEN "gemini" ELSE "openai"
HeavyTier(provider) == IF provider = "openai" THEN "gpt-5.2" ELSE "gemini-3-pro-preview"
CheapTier(provider) == IF provider = "openai" THEN "gpt-5-nano" ELSE "gemini-3-flash-preview"

\* The clause a remap away from provider appends to the reason.
RemapClause(provider) ==
    " (remapped: " \o (IF provider = "openai" THEN "OpenAI" ELSE "Gemini")
    \o " not available)"

\* The reason after a remap: the router's reason, then the remap clause first.
RemapRecorded ==
    StartsWith(rrDecision.reason,
               rrOut.decision.reason \o RemapClause(getProvider(ValidatedModel)))

\* C11 as stated: when the chosen model's provider is unavailable, the heavy
\* tier is remapped to the other provider's heavy tier, every other model to
\* the other provider's cheap/fast tier, and the remap appends a clause to
\* the reason.
C11_RemapHeavyToHeavyElseCheap ==
    Remapped =>
        LET from == getProvider(ValidatedModel)
        IN /\ rrResolved = (IF ValidatedModel = HeavyTier(from)
                            THEN HeavyTier(OtherProvider(from))
                            ELSE CheapTier(OtherProvider(from)))
           /\ RemapRecorded

\* C11 amended: the heavy tier is remapped to the other provider's heavy
\* tier, gemini-3-flash-preview to the OpenAI mid tier gpt-5-mini, gpt-5-nano
\* and gpt-5-mini to gemini-3-flash-preview, and the remap appends a clause
\* to the reason.
C11_RemapHeavyToHeavyElseMidOrFlash ==
    Remapped =>
        LET from == getProvider(ValidatedModel)
        IN /\ rrResolved = (IF ValidatedModel = HeavyTier(from)
                            THEN HeavyTier(OtherProvider(from))
                            ELSE IF from = "gemini" THEN "gpt-5-mini"
                            ELSE "gemini-3-flash-preview")
           /\ RemapRecorded

C11_Witness ==
    /\ Remapped
    /\ ValidatedModel = "gemini-3-flash-preview"
    /\ rrResolved = "gpt-5-mini"
    /\ rrArgs.hasOpenAI /\ ~rrArgs.hasGemini

-----------------------------------------------------------------------------
(* Rejections of the tool handlers, checked under SpecServers and Spec.     *)

NoProvider == config.openai = "" /\ config.gemini = ""

SecondOpinion == request.name = "get_second_opinion"

\* The request made no provider call of any kind: no router call, no
\* invocation, no retry, nothing in flight.
NoProviderCall ==
    /\ routerCalls = 0
    /\ rrPc = "none"
    /\ calls = <<>>
    /\ inflight = {}

\* The result is the error payload of the outer catch.
FailedWith(msg) ==
    /\ pc = "done"
    /\ result.isError
    /\ result.content = <<"Error: " \o msg>>

\* C12: when neither provider is configured, a get_second_opinion call (on
\* either server) has returned an error payload as soon as the handler has
\* run, and has made no classification call, no invocation and no retry.
C12_NoProviderFailsWithoutCalls ==
    (SecondOpinion /\ NoProvider) =>
        /\ pc = "done"
        /\ result.isError
        /\ Len(result.content) = 1
        /\ StartsWith(result.content[1], "Error: ")
        /\ NoProviderCall

C12_Witness ==
    /\ SecondOpinion /\ request.hasPrompt
    /\ NoProvider
    /\ FailedWith("No API keys configured. Set OPENAI_API_KEY and/or GEMINI_API_KEY.")

\* C13: a get_second_opinion call without its required prompt is rejected
\* with the validation error as soon as the handler has run, before the
\* availability checks (their error is not the one returned) and without a
\* classification call or an invocation.
C13_MissingPromptRejectedFirst ==
    (SecondOpinion /\ ~request.hasPrompt) =>
        /\ FailedWith("prompt: Required")
        /\ NoProviderCall

C13_Witness ==
    /\ SecondOpinion /\ ~request.hasPrompt
    /\ NoProvider
    /\ FailedWith("prompt: Required")

\* C17: on the delegated-router server, a get_second_opinion call with
\* OpenAI not configured has returned an error payload as soon as the
\* handler has run, with no router call and no invocation, also when
\* Gemini is configured.
C17_RouterKeyRequired ==
    (SecondOpinion /\ config.openai = "") =>
        /\ pc = "done"
        /\ result.isError
        /\ Len(result.content) = 1
        /\ StartsWith(result.content[1], "Error: ")
        /\ NoProviderCall

C17_Witness ==
    /\ SecondOpinion /\ request.hasPrompt
    /\ config.openai = "" /\ config.gemini # ""
    /\ FailedWith("OpenAI API key required for the router (gpt-5-nano). Set OPENAI_API_KEY.")

-----------------------------------------------------------------------------
(* Error containment of the delegated-router handler, checked under Spec.   *)

KnownTools == {"get_second_opinion", "list_available_models"}

\* The call-tool request being answered failed: unknown tool name, invalid
\* input or missing configuration, or both invocations threw.
ToolCallFailed ==
    /\ pc = "done"
    /\ request.name # "tools/list"
    /\ \/ request.name \notin KnownTools
       \/ SecondOpinion /\ Rejection(request, config) # NonError
       \/ BothThrew

\* C14: every failed tool call is answered with one structured error
\* payload with isError set (list_available_models without a provider
\* included); no handler run ends without a result; and the server goes on
\* serving: the answer can be sent and the next request can be taken.
C14_FailuresReturnedAsErrorPayload ==
    /\ ToolCallFailed =>
          /\ result.isError
          /\ Len(result.content) = 1
          /\ StartsWith(result.content[1], "Error: ")
    /\ (pc = "done" /\ request.name = "list_available_models" /\ NoProvider)
          => result.isError /\ Len(result.content) = 1
    /\ pc = "done" => (result # NoResult /\ process = "serving" /\ ENABLED Respond)
    /\ (pc = "idle" /\ process = "serving") => ENABLED CallTool

C14_Witness ==
    /\ ToolCallFailed
    /\ request.name = "delete_everything"
    /\ FailedWith("Unknown tool: delete_everything")

-----------------------------------------------------------------------------
(* The reason of a decision through the pipeline, checked under Spec.       *)

\* The reason after the validation and the remap steps of routeRequest.
ReasonAfterRemap ==
    EnforceAvailability(ValidateModel(rrOut.decision),
                        rrArgs.hasOpenAI, rrArgs.hasGemini).reason

\* C15: the reason only grows through the pipeline (the router's reason is a
\* prefix of the reason after the remap, that of the reason routeRequest
\* returns, that of the reason the handler reports), and every handled
\* error has left its clause in the reason the handler holds: an
\* out-of-catalog model, a router failure, an unavailable provider, a low
\* confidence, a failed first invocation whose retry succeeded.
C15_ReasonAppendOnly ==
    rrPc = "returned" =>
        LET json == rrOut.kind = "json"
            validated == ValidateModel(rrOut.decision)
        IN /\ json => /\ StartsWith(ReasonAfterRemap, rrOut.decision.reason)
                      /\ StartsWith(rrDecision.reason, ReasonAfterRemap)
           /\ StartsWith(decision.reason, rrDecision.reason)
           /\ ~json => StartsWith(decision.reason, "Router failed")
           /\ (json /\ ~Available(getProvider(validated.selected_model), rrArgs))
                 => Includes(decision.reason, " (remapped: ")
           /\ (json /\ validated.confidence < ConfThreshold)
                 => Includes(decision.reason, " (escalated: confidence ")
           /\ RetrySucceeded => Includes(decision.reason, " (escalated from ")
           /\ (json /\ rrOut.decision.selected_model \notin VALID_MODELS)
                 => Includes(ToLowerCase(decision.reason), "unknown model")

-----------------------------------------------------------------------------
(* Credential resolution, checked under SpecFn.                             *)

\* The key a credential resolves to: the environment value if set,
\* otherwise the value of the config file.
EnvThenFile(envKey, file, fileKey) ==
    IF envKey # "" THEN envKey
    ELSE IF file.readable THEN fileKey ELSE ""

\* C16: each of the two credentials is resolved from the environment
\* variable if set, otherwise from the config file, the OpenAI and the
\* Gemini credential alike; so a provider is available exactly when its key
\* is in the environment or in the file.
C16_CredentialsEnvThenFile ==
    (fn = "loadConfig" /\ lcRet # <<>>) =>
        /\ lcRet[1].openai =
              EnvThenFile(lcArgs.env.OPENAI_API_KEY, lcArgs.file, lcArgs.file.openai)
        /\ lcRet[1].gemini =
              EnvThenFile(lcArgs.env.GEMINI_API_KEY, lcArgs.file, lcArgs.file.gemini)

-----------------------------------------------------------------------------
(* Startup without a provider, checked under Spec.                          *)

\* C18 as stated: with both credentials absent the process terminates at
\* startup; it never serves and never answers a list-tools or call-tool
\* request.
C18_NoProviderNeverServes ==
    NoProvider => (process # "serving" /\ pc # "done")

\* C18 amended: with both credentials absent the process still starts and
\* serves; list-tools is answered with the tools, list_available_models
\* with the isError payload "No providers configured", every other
\* call-tool request with an error payload and without a provider call;
\* the process exits only at startup, when main() rejects.
C18_NoProviderServesErrors ==
    /\ NoProvider =>
          /\ process = "starting" => ENABLED MainConnects
          /\ (pc = "done" /\ request.name = "tools/list") => result = ToolsResult
          /\ (pc = "done" /\ request.name = "list_available_models") =>
                /\ result.isError
                /\ result.content =
                     <<"No providers configured. Set OPENAI_API_KEY and/or GEMINI_API_KEY.">>
          /\ (pc = "done" /\ request.name \notin {"tools/list", "list_available_models"}) =>
                /\ result.isError
                /\ StartsWith(result.content[1], "Error: ")
                /\ NoProviderCall
          /\ pc \in {"idle", "done"}
    /\ process = "exited" => (pc = "idle" /\ request = NoRequest)

C18_Witness ==
    /\ NoProvider
    /\ process = "serving"
    /\ pc = "done"
    /\ request.name = "list_available_models"
    /\ result.isError

-----------------------------------------------------------------------------
(* Multimodal requests through routeRequest, checked under SpecFn.          *)

\* The prompt or the context of args mentions a screenshot or a PDF, in any
\* letter case.
MentionsMultimodal(args) ==
    \E k \in {"screenshot", "pdf"} :
        \/ Includes(ToLowerCase(args.prompt), k)
        \/ Includes(ToLowerCase(args.context), k)

\* routeRequest was called with both providers available on a request
\* that mentions multimodal content.
MultimodalRequest ==
    /\ fn = "routeRequest"
    /\ rrArgs.hasOpenAI /\ rrArgs.hasGemini
    /\ MentionsMultimodal(rrArgs)

\* C20 as stated: with both providers available, a request that contains a
\* multimodal keyword is routed to gemini-3-flash-preview with the
\* multimodal signal set.
C20_MultimodalRoutedToFlash ==
    (MultimodalRequest /\ rrPc = "returned") =>
        /\ rrDecision.selected_model = "gemini-3-flash-preview"
        /\ rrDecision.signals.multimodal

\* C20 amended: with both providers available, a request that contains a
\* multimodal keyword is sent to the router with multimodalDetected set and
\* the multimodal note among the hints; when the router call fails or its
\* output does not parse the decision is gemini-3-flash-preview with the
\* multimodal signal set; otherwise the model is the router's validated
\* choice (escalated when the confidence is below 0.65) and the signals are
\* the router's.
C20_MultimodalHintedAndFallbackToFlash ==
    MultimodalRequest =>
        /\ rrPc = "await" =>
              \A q \in inflight :
                  /\ q.multimodalDetected
                  /\ Includes(q.hints, "NOTE: The request appears to involve multimodal content")
        /\ (rrPc = "returned" /\ rrOut.kind # "json") =>
              /\ rrDecision.selected_model = "gemini-3-flash-preview"
              /\ rrDecision.signals.multimodal
        /\ (rrPc = "returned" /\ rrOut.kind = "json") =>
              LET validated == ValidateModel(rrOut.decision)
              IN /\ rrDecision.signals = rrOut.decision.signals
                 /\ rrDecision.selected_model =
                      (IF validated.confidence < ConfThreshold
                       THEN escalate(validated.selected_model)
                       ELSE validated.selected_model)

C20_Witness ==
    /\ MultimodalRequest
    /\ rrArgs.prompt = "Read the Screenshot"
    /\ rrPc = "returned"
    /\ rrOut.kind = "failed"
    /\ rrDecision.selected_model = "gemini-3-flash-preview"
    /\ rrDecision.signals.multimodal

-----------------------------------------------------------------------------
(* Two requests in flight on the delegated-router server (SpecConc).  The   *)
(* handler is an async function: it runs without interruption up to an      *)
(* await, and while it is suspended the event loop may run the handler of   *)
(* another request.  The variables of the handler hold the locals of the    *)
(* request that is running; parked holds those of the suspended one.        *)

\* A faulty variant of Frame: decision is kept in a module-level variable
\* that the handler of another request resets.
Frame_SharedDecision ==
    [rrPc |-> rrPc, rrArgs |-> rrArgs, rrOut |-> rrOut, rrResolved |-> rrResolved,
     rrDecision |-> rrDecision, inflight |-> inflight, routerCalls |-> routerCalls,
     pc |-> pc, request |-> request, decision |-> NoDecision, model |-> model,
     firstError |-> firstError, calls |-> calls, result |-> result]

\* The locals of the running request (params, decision, model, response,
\* the caught errors) with the frame of its routeRequest call and its
\* pending provider call.
Frame ==
    [rrPc |-> rrPc, rrArgs |-> rrArgs, rrOut |-> rrOut, rrResolved |-> rrResolved,
     rrDecision |-> rrDecision, inflight |-> inflight, routerCalls |-> routerCalls,
     pc |-> pc, request |-> request, decision |-> decision, model |-> model,
     firstError |-> firstError, calls |-> calls, result |-> result]

\* The frame of a handler that is not running a request.
IdleFrame ==
    [rrPc |-> "none", rrArgs |-> NoArgs, rrOut |-> NoOutcome, rrResolved |-> "",
     rrDecision |-> NoDecision, inflight |-> {}, routerCalls |-> 0,
     pc |-> "idle", request |-> NoRequest, decision |-> NoDecision, model |-> "",
     firstError |-> NonError, calls |-> <<>>, result |-> NoResult]

\* The running request is suspended at its await (or has not arrived, or is
\* answered) and the event loop runs the other one.
Switch ==
    /\ process = "serving"
    /\ parked # <<>>
    /\ parked' = <<Frame>>
    /\ LET f == parked[1]
       IN /\ rrPc' = f.rrPc /\ rrArgs' = f.rrArgs /\ rrOut' = f.rrOut
          /\ rrResolved' = f.rrResolved /\ rrDecision' = f.rrDecision
          /\ inflight' = f.inflight /\ routerCalls' = f.routerCalls
          /\ pc' = f.pc /\ request' = f.request /\ decision' = f.decision
          /\ model' = f.model /\ firstError' = f.firstError
          /\ calls' = f.calls /\ result' = f.result
    /\ UNCHANGED <<fnVars, server, process, config>>

\* The inputs of the two-request behaviours: two configurations, three
\* requests, five router outcomes, one provider error and one provider text.
ConcConfigs ==
    {[openai |-> "sk-env", gemini |-> "g-env"], [openai |-> "sk-env", gemini |-> ""]}

ConcRequests ==
    {r \in Requests :
        \/ r.name = "list_available_models"
        \/ /\ r.name = "get_second_opinion" /\ r.hasPrompt /\ r.context = ""
           /\ r.prompt \in {"fix this bug", "Read the Screenshot"}}

ConcOutcomes ==
    {o \in RouterOutcomes :
        \/ o.kind = "failed" /\ o.error = Error("timeout")
        \/ /\ o.kind = "json"
           /\ o.decision.selected_model \in {"gpt-5-nano", "gemini-3-flash-preview"}
           /\ o.decision.confidence \in {40, 90}
           /\ o.decision.fallback_model = "gpt-5-nano"}

InScope ==
    /\ request.name \in {"", "tools/list"} \/ request \in ConcRequests
    /\ rrOut = NoOutcome \/ rrOut \in ConcOutcomes
    /\ \A i \in 1..Len(calls) :
          /\ calls[i].state = "threw" => calls[i].error = Error("timeout")
          /\ calls[i].state = "returned" => calls[i].text = "use a mutex"

ConcInit ==
    /\ InitOf({"router"})
    /\ config \in ConcConfigs

ConcCallTool == CallTool /\ InScope'
ConcRouterSettles == RouterSettles /\ InScope'
ConcFirstCallReturns == FirstCallReturns /\ InScope'
ConcFirstCallThrows == FirstCallThrows /\ InScope'
ConcRetryReturns == RetryReturns /\ InScope'
ConcRetryThrows == RetryThrows /\ InScope'

\* A second request can be taken once the process serves.
Accept ==
    /\ process = "serving"
    /\ parked = <<>>
    /\ parked' = <<IdleFrame>>
    /\ UNCHANGED <<fnVars, rrVars, inflight, routerCalls, server, process, config, pc,
                   request, decision, model, firstError, calls, result>>

ConcNext ==
    \/ MainConnects
    \/ MainFails
    \/ Accept
    \/ Switch
    \/ ListTools
    \/ ConcCallTool
    \/ ConcRouterSettles
    \/ ConcFirstCallReturns
    \/ ConcFirstCallThrows
    \/ ConcRetryReturns
    \/ ConcRetryThrows
    \/ Respond

SpecConc == ConcInit /\ [][ConcNext]_vars

\* The result of the handler on request req run alone under configuration
\* cfg, when the router call produces out and the invocations settle as in
\* log.
RunAlone(req, cfg, out, log) ==
    IF req.name = "tools/list" THEN ToolsResult
    ELSE IF req.name = "list_available_models" THEN ListResult(cfg)
    ELSE IF req.name # "get_second_opinion"
    THEN ErrorResult(Error("Unknown tool: " \o req.name))
    ELSE IF Rejection(req, cfg) # NonError THEN ErrorResult(Rejection(req, cfg))
    ELSE LET d == routeRequest(Args(cfg.openai, req.prompt, req.context,
                                    cfg.openai # "", cfg.gemini # ""), out).decision
             m == d.selected_model
             escalated == escalate(m)
             retried == [d EXCEPT
                           !.reason = @ \o " (escalated from " \o m \o ": "
                                        \o ErrorText(log[1].error, "error") \o ")"]
         IN IF log[1].state = "returned" THEN SuccessResult(m, d, log[1].text)
            ELSE IF log[2].state = "returned"
            THEN SuccessResult(RetriedModel(m, escalated), retried, log[2].text)
            ELSE ErrorResult(BothFailed(m, escalated, log[1].error, log[2].error))

\* The request of frame f saw only its own inputs: its decision is the one
\* routeRequest makes of its own router outcome, and its answer is the
\* one it gets when run alone with the same provider responses.
Isolated(f) ==
    /\ f.rrPc = "returned" =>
          /\ f.rrDecision = routeRequest(f.rrArgs, f.rrOut).decision
          /\ StartsWith(f.decision.reason, f.rrDecision.reason)
    /\ f.pc = "done" => f.result = RunAlone(f.request, config, f.rrOut, f.calls)

\* C19: no step of a tool call writes the provider configuration, and
\* under every interleaving of two requests each request works on its own
\* decision and is answered as it is when run alone with the same provider
\* responses.
C19_RequestsIsolated ==
    /\ [][config' = config]_vars
    /\ [](/\ Isolated([rrPc |-> rrPc, rrArgs |-> rrArgs, rrOut |-> rrOut,
                       rrDecision |-> rrDecision, pc |-> pc, request |-> request,
                       decision |-> decision, calls |-> calls, result |-> result])
          /\ \A i \in 1..Len(parked) : Isolated(parked[i]))

C19_Witness ==
    /\ parked # <<>>
    /\ RetrySucceeded
    /\ parked[1].pc = "retrying"
    /\ parked[1].request # request
    /\ parked[1].rrOut # rrOut

-----------------------------------------------------------------------------
(* Short classification tasks, checked under SpecFn.                        *)

\* args is a short classification task with both providers available: ten
\* words, no fence, no complexity keyword, at most one question mark.
ShortClassification(args) ==
    /\ args.hasOpenAI /\ args.hasGemini
    /\ args.prompt \in ClassificationPrompts
    /\ args.context = ""
    /\ SplitWhitespaceLength(args.prompt) = 10
    /\ MatchCount(args.prompt, Fence) = 0
    /\ MatchCount(args.prompt, "?") <= 1
    /\ \A kw \in complexKeywords : ~Includes(ToLowerCase(args.prompt), kw)

-----------------------------------------------------------------------------
(* The confidence escalation over every returned decision, under SpecFn.    *)

\* How many confidence-escalation clauses the returned reason holds.
EscalatedClauses == MatchCount(rrDecision.reason, " (escalated: confidence ")

\* C22: every decision routeRequest returns with confidence below 0.65,
\* the heuristic fallback decisions included, has been escalated exactly
\* once and holds one escalated clause in its reason.
C22_LowConfidenceEscalatedOnce ==
    (RouteRequestReturned /\ rrDecision.confidence < ConfThreshold) =>
        /\ EscalatedClauses = 1
        /\ rrOut.kind = "json" => rrDecision.selected_model = escalate(rrResolved)

-----------------------------------------------------------------------------
(* Termination of a get_second_opinion call, checked under SpecLive.        *)

\* The provider calls the request has made: router calls and invocations.
ProviderCalls == routerCalls + Len(calls)

\* The handler is suspended at one of its awaits.
Pending == SecondOpinion /\ pc \in {"routing", "calling", "retrying"}

SuccessWithText ==
    /\ ~result.isError
    /\ Len(result.content) = 2
    /\ result.content[2] = calls[Len(calls)].text
    /\ calls[Len(calls)].state = "returned"

ErrorPayload ==
    /\ result.isError
    /\ Len(result.content) = 1
    /\ StartsWith(result.content[1], "Error: ")

\* C23: a get_second_opinion call never makes more than three provider
\* calls; when each provider call eventually returns text or raises, a
\* suspended call is eventually answered; and the answer is exactly one of
\* a success result carrying the response text and an error payload.
C23_TerminatesWithinThreeCalls ==
    /\ [](SecondOpinion =>
            /\ ProviderCalls <= 3
            /\ pc = "done" => (SuccessWithText # ErrorPayload))
    /\ (Pending ~> (SecondOpinion /\ pc = "done"))

C23_Witness ==
    /\ SecondOpinion
    /\ pc = "done"
    /\ ProviderCalls = 3
    /\ SuccessWithText

-----------------------------------------------------------------------------
(* The keys of the invoked models, checked under Spec.                      *)

KeyErrors ==
    {Error("OpenAI API key not configured."), Error("Gemini API key not configured.")}

\* C24: every model passed to callModel, on the first invocation and on
\* the retry, belongs to a provider whose key is configured, so callModel
\* never throws its key error and every provider call carries a key.
C24_InvokedModelsHaveKeys ==
    /\ \A i \in 1..Len(calls) :
          /\ KeyConfigured(calls[i].model, config)
          /\ calls[i].error \notin KeyErrors
    /\ firstError \notin KeyErrors
    /\ \A q \in inflight : q.apiKey # ""

C24_Witness ==
    /\ pc = "done"
    /\ config.openai # "" /\ config.gemini = ""
    /\ rrOut.kind = "json"
    /\ rrOut.decision.selected_model = "gemini-3-flash-preview"
    /\ Len(calls) = 2
    /\ calls[1].model = "gpt-5-mini" /\ calls[2].model = "gpt-5.2"

-----------------------------------------------------------------------------
(* The model of the retry, checked under Spec.                              *)

\* The position of a model in the chain of its provider
Tier ==
    [m \in VALID_MODELS |->
        CASE m \in {"gpt-5-nano", "gemini-3-flash-preview"} -> 1
          [] m \in {"gpt-5-mini", "gemini-3-pro-preview"} -> 2
          [] OTHER -> 3]

LowerTier(a, b) == getProvider(a) = getProvider(b) /\ Tier[a] < Tier[b]

Retried == SecondOpinion /\ Len(calls) = 2

\* C25: the model of the retry is the fallback_model of the decision
\* routeRequest returned, it is never a lower tier of the failed model's
\* chain, and a failed gpt-5.2 is retried as gpt-5.2.
C25_RetryIsFallbackNeverLower ==
    Retried
      => /\ calls[1].model = rrDecision.selected_model
         /\ calls[2].model = rrDecision.fallback_model
         /\ calls[2].model = decision.fallback_model
         /\ ~LowerTier(calls[2].model, calls[1].model)
         /\ calls[1].model = "gpt-5.2" => calls[2].model = "gpt-5.2"

C25_Witness ==
    /\ Retried /\ pc = "done"
    /\ calls[1].model = "gpt-5.2" /\ calls[1].state = "threw"
    /\ calls[2].model = "gpt-5.2" /\ calls[2].state = "returned"
    /\ rrDecision.fallback_model = "gpt-5.2"

-----------------------------------------------------------------------------
(* The substituted default of the validation, checked under SpecFn.         *)

OutOfCatalog ==
    /\ RouteRequestReturned
    /\ rrOut.kind = "json"
    /\ rrOut.decision.selected_model \notin VALID_MODELS

\* C26: when the router's parseable output names a model outside the
\* catalog, the substituted confidence 0.5 triggers the confidence
\* escalation: the returned decision never selects the substituted
\* gpt-5-mini, it selects gpt-5.2 when OpenAI is available and
\* gemini-3-pro-preview when only Gemini is available.
C26_SubstitutedDefaultEscalated ==
    OutOfCatalog
      => /\ rrDecision.selected_model # "gpt-5-mini"
         /\ rrDecision.confidence = 50
         /\ Includes(rrDecision.reason, "(escalated: confidence 0.5)")
         /\ rrArgs.hasOpenAI => rrDecision.selected_model = "gpt-5.2"
         /\ (~rrArgs.hasOpenAI /\ rrArgs.hasGemini)
              => rrDecision.selected_model = "gemini-3-pro-preview"

C26_Witness ==
    /\ OutOfCatalog
    /\ rrOut.decision.confidence = 90
    /\ ~rrArgs.hasOpenAI /\ rrArgs.hasGemini
    /\ rrDecision.selected_model = "gemini-3-pro-preview"

====
